---- MODULE Spec2Model ----
(***************************************************************************)
(* Model of the technical-analysis tool of the Financial-Advisor-Agent     *)
(* repository: YFinanceTechnicalAnalysisTool._run and its helpers          *)
(* (src/tools/yf_tech_analysis.py).                                        *)
(*                                                                         *)
(* Prices are integers.  A missing close (pandas NaN) is the value NaN;    *)
(* every comparison with NaN is false, as in IEEE arithmetic.  Arrays are  *)
(* TLA+ sequences; the operators below use the 0-based indices of the      *)
(* source and read element i of x as At(x, i).                             *)
(***************************************************************************)
EXTENDS Integers, Sequences, FiniteSets, TLC

\* ------------------------------------------------------------------------
\* Program constants
\* ------------------------------------------------------------------------
MinBars == 50
Distance == 20
SmaShort == 50
SmaLong == 200
NaN == -1000000

\* ------------------------------------------------------------------------
\* Bounds of the model
\* ------------------------------------------------------------------------
MaxLen == 95
MaxSpikes == 2

\* ------------------------------------------------------------------------
\* Float helpers
\* ------------------------------------------------------------------------
At(x, i) == x[i + 1]

Lt(a, b) == a # NaN /\ b # NaN /\ a < b

Eq(a, b) == a # NaN /\ b # NaN /\ a = b

Neg(a) == IF a = NaN THEN NaN ELSE 0 - a

Abs(a) == IF a < 0 THEN 0 - a ELSE a

Negate(x) == [i \in 1..Len(x) |-> Neg(x[i])]

DropNa(x) == SelectSeq(x, LAMBDA v : v # NaN)

\* The elements of a finite set of integers in ascending order.
SortedSeq(S) ==
  [k \in 1..Cardinality(S) |->
     CHOOSE e \in S : Cardinality({d \in S : d < e}) = k - 1]

Take(x, idx) == [k \in 1..Len(idx) |-> At(x, idx[k])]

\* ------------------------------------------------------------------------
\* find_peaks(x, distance=20), the peak-finding routine the tool calls.
\* ------------------------------------------------------------------------

\* The end of the flat run starting at i: the first index i_ahead >= i + 1
\* that is the last bar or whose value differs from x[i].
PlateauEnd(x, i) ==
  CHOOSE e \in (i + 1)..(Len(x) - 1) :
    /\ e = Len(x) - 1 \/ ~Eq(At(x, e), At(x, i))
    /\ \A d \in (i + 1)..(e - 1) : Eq(At(x, d), At(x, i))

\* A flat run starts at i with a rise and ends with a fall.
IsPeakStart(x, i) ==
  /\ Lt(At(x, i - 1), At(x, i))
  /\ Lt(At(x, PlateauEnd(x, i)), At(x, i))

\* Variant: the first bar of the flat run is recorded.
LocalMaximaFirst(x) ==
  SortedSeq({j \in 1..(Len(x) - 2) : IsPeakStart(x, j)})

\* Candidate peaks: the scan over i = 1 .. len(x) - 2 records, for every
\* flat run that starts with a rise and ends with a fall, the midpoint of
\* the run, and resumes after the run (no bar inside a run starts one).
LocalMaxima(x) ==
  SortedSeq({(i + (PlateauEnd(x, i) - 1)) \div 2 :
               i \in {j \in 1..(Len(x) - 2) : IsPeakStart(x, j)}})

\* Variant: the positions are handled left to right.
NextPositionLeftmost(priority, todo, ties) ==
  CHOOSE j \in todo : \A k \in todo : j <= k

\* The position handled next by the distance filter: the last entry of
\* argsort(priority) among the positions not yet handled, that is one of
\* largest priority.  The order argsort gives to equal priorities is not
\* fixed by the sort it uses: "later" handles the larger position first
\* (a stable sort), "earlier" the smaller one.
NextPosition(priority, todo, ties) ==
  LET best == {j \in todo : \A k \in todo : priority[k] <= priority[j]}
  IN IF ties = "later"
     THEN CHOOSE j \in best : \A k \in best : k <= j
     ELSE CHOOSE j \in best : \A k \in best : j <= k

\* Variant: a candidate distance - 1 bars away is not removed.
TooCloseByOne(peaks, j, distance) ==
  {k \in 1..Len(peaks) : k # j /\ Abs(peaks[k] - peaks[j]) < distance - 1}

\* The candidates a kept position j removes: every other candidate whose
\* index is closer than distance to that of j.
TooClose(peaks, j, distance) ==
  {k \in 1..Len(peaks) : k # j /\ Abs(peaks[k] - peaks[j]) < distance}

RECURSIVE SelectLoop(_, _, _, _, _, _)
SelectLoop(peaks, priority, distance, ties, todo, keep) ==
  IF todo = {} THEN keep
  ELSE LET j == NextPosition(priority, todo, ties)
       IN IF j \notin keep
          THEN SelectLoop(peaks, priority, distance, ties, todo \ {j}, keep)
          ELSE SelectLoop(peaks, priority, distance, ties, todo \ {j},
                          keep \ TooClose(peaks, j, distance))

\* The positions (1-based, into peaks) that survive the distance filter.
SelectByPeakDistance(peaks, priority, distance, ties) ==
  SelectLoop(peaks, priority, distance, ties,
             1..Len(peaks), 1..Len(peaks))

\* The subsequence of s at the positions of keep, in order.
RECURSIVE Compress(_, _, _)
Compress(s, keep, k) ==
  IF k > Len(s) THEN << >>
  ELSE IF k \in keep THEN << s[k] >> \o Compress(s, keep, k + 1)
       ELSE Compress(s, keep, k + 1)

FindPeaks(x, distance, ties) ==
  LET cand == LocalMaxima(x)
      keep == SelectByPeakDistance(cand, Take(x, cand), distance, ties)
  IN Compress(cand, keep, 1)

\* ------------------------------------------------------------------------
\* Chart patterns
\* ------------------------------------------------------------------------

\* abs(a - b) / b < 0.03 in float arithmetic: a zero divisor gives inf or
\* nan (not below), a negative divisor a ratio that is not positive.
RelDiffBelow3Pct(a, b) ==
  IF b > 0 THEN 100 * Abs(a - b) < 3 * b
  ELSE IF b < 0 THEN TRUE
  ELSE FALSE

\* Variant: a head level with a shoulder is accepted.
is_head_and_shoulders_weak(close, ties) ==
  LET peaks == FindPeaks(close, Distance, ties)
      n == Len(peaks)
  IN IF n >= 3
     THEN /\ ~Lt(At(close, peaks[n - 1]), At(close, peaks[n - 2]))
          /\ ~Lt(At(close, peaks[n - 1]), At(close, peaks[n]))
     ELSE FALSE

is_head_and_shoulders(close, ties) ==
  LET peaks == FindPeaks(close, Distance, ties)
      n == Len(peaks)
  IN IF n >= 3
     THEN LET left_shoulder == peaks[n - 2]
              head == peaks[n - 1]
              right_shoulder == peaks[n]
          IN Lt(At(close, left_shoulder), At(close, head))
             /\ Lt(At(close, right_shoulder), At(close, head))
     ELSE FALSE

\* Variant: the difference is normalised by the later peak.
is_double_top_later(close, ties) ==
  LET peaks == FindPeaks(close, Distance, ties)
      n == Len(peaks)
  IN IF n >= 2
     THEN RelDiffBelow3Pct(At(close, peaks[n - 1]), At(close, peaks[n]))
     ELSE FALSE

is_double_top(close, ties) ==
  LET peaks == FindPeaks(close, Distance, ties)
      n == Len(peaks)
  IN IF n >= 2
     THEN RelDiffBelow3Pct(At(close, peaks[n]), At(close, peaks[n - 1]))
     ELSE FALSE

\* Variant: the ratio is taken over the negated closes.
is_double_bottom_negated(close, ties) ==
  LET troughs == FindPeaks(Negate(close), Distance, ties)
      n == Len(troughs)
  IN IF n >= 2
     THEN RelDiffBelow3Pct(Neg(At(close, troughs[n])),
                           Neg(At(close, troughs[n - 1])))
     ELSE FALSE

is_double_bottom(close, ties) ==
  LET troughs == FindPeaks(Negate(close), Distance, ties)
      n == Len(troughs)
  IN IF n >= 2
     THEN RelDiffBelow3Pct(At(close, troughs[n]), At(close, troughs[n - 1]))
     ELSE FALSE

\* Variant: the rules are tried in turn and the first match wins.
identify_chart_patterns_first(close, ties) ==
  IF is_head_and_shoulders(close, ties) THEN << "Head and Shoulders" >>
  ELSE IF is_double_top(close, ties) THEN << "Double Top" >>
  ELSE IF is_double_bottom(close, ties) THEN << "Double Bottom" >>
  ELSE << >>

identify_chart_patterns(close, ties) ==
  (IF is_head_and_shoulders(close, ties) THEN << "Head and Shoulders" >> ELSE << >>)
  \o (IF is_double_top(close, ties) THEN << "Double Top" >> ELSE << >>)
  \o (IF is_double_bottom(close, ties) THEN << "Double Bottom" >> ELSE << >>)

\* ------------------------------------------------------------------------
\* Support and resistance (lines 81-85)
\* ------------------------------------------------------------------------
\* Variant: the first three extrema are taken.
LevelsFirst(close_prices, extrema) ==
  LET prices == Take(close_prices, extrema)
  IN IF Len(extrema) >= 3 THEN SubSeq(prices, 1, 3) ELSE prices

Levels(close_prices, extrema) ==
  LET prices == Take(close_prices, extrema)
  IN IF Len(extrema) >= 3
     THEN SubSeq(prices, Len(prices) - 2, Len(prices))
     ELSE prices

\* ------------------------------------------------------------------------
\* Indicators (lines 52-78).  A snapshot value is a number, NaN, None, or,
\* for the column a string was assigned to, that string.
\* ------------------------------------------------------------------------
None == "None"

Backends == {"pandas_ta", "ta", "none"}

\* Sum of the closes at 0-based indices lo..hi; NaN if one is missing.
RECURSIVE RangeSum(_, _, _)
RangeSum(x, lo, hi) ==
  IF lo = hi THEN At(x, lo)
  ELSE LET mid == (lo + hi) \div 2
           l == RangeSum(x, lo, mid)
           r == RangeSum(x, mid + 1, hi)
       IN IF l = NaN \/ r = NaN THEN NaN ELSE l + r

\* Sum of the n closes ending at 0-based index last.
WindowSum(x, last, n) == RangeSum(x, last - n + 1, last)

\* The rolling mean is all-null when no window of n bars is complete.
SmaAllNull(x, n) ==
  \A last \in (n - 1)..(Len(x) - 1) : WindowSum(x, last, n) = NaN

\* history['SMA_n'].iloc[-1] if not history['SMA_n'].isnull().all() else None.
\* The mean is kept exact as the pair << window sum, n >>.
SmaCurrent(x, n) ==
  IF Len(x) < n \/ SmaAllNull(x, n) THEN None
  ELSE LET total == WindowSum(x, Len(x) - 1, n)
       IN IF total = NaN THEN << "nan" >> ELSE << total, n >>

\* pandas_ta: the three targets of the tuple assignment receive what
\* iterating the returned frame yields, its column labels.
MacdCurrent(be) == IF be = "pandas_ta" THEN "MACD_12_26_9" ELSE "number"

\* ------------------------------------------------------------------------
\* Inputs: the series the market-data provider returns
\* ------------------------------------------------------------------------
Shapes == {"flat", "wave"}

BaseAt(shape, i) ==
  IF shape = "flat" THEN 90 ELSE 90 + Abs((i % 20) - 10)

Slots == {10, 29, 30, 45, 70}

SpikeVals == {80, 88, 100, 102, 103, 120, NaN}

SpikeSets == {S \in SUBSET Slots : Cardinality(S) <= MaxSpikes}

Series(n, shape, spikes) ==
  [k \in 1..n |-> IF (k - 1) \in DOMAIN spikes THEN spikes[k - 1]
                  ELSE BaseAt(shape, k - 1)]

NoSpikes == [i \in {} |-> 0]

Fixture == (10 :> 100) @@ (30 :> 120) @@ (50 :> 100)

ShortLens ==
  {0, 1, MinBars - 1, MinBars, MinBars + 1, MaxLen, SmaLong - 1, SmaLong}

\* Faults of the environment: the step of _run at which a library call
\* raises, the exception's class and its message.
Stages == {"fetch", "indicators", "snapshot", "patterns"}

Kinds == {"IndexError", "ValueError", "KeyError"}

Msgs == {"m1", "m2"}

\* Variant: the last except clause matches index faults only.
IsExceptionNarrow(kind) == kind = "IndexError"

\* IndexError, ValueError and KeyError are subclasses of Exception.
IsException(kind) == kind \in Kinds

NoFault == [stage |-> "none", kind |-> "none", msg |-> "none"]

Faults == {NoFault} \cup [stage : Stages, kind : Kinds, msg : Msgs]

ErrInsufficient ==
  << "Insufficient data for technical analysis. At least 50 data points are required." >>

ErrBackend ==
  << "Neither pandas_ta nor ta libraries are installed. Please install one." >>

ErrIndex == << "Index error: Ensure sufficient data for technical analysis." >>

\* Variant: the message of the fault is left out.
ErrUnexpectedBare(msg) == << "An unexpected error occurred: ", "" >>

ErrUnexpected(msg) == << "An unexpected error occurred: ", msg >>

Pending == [pending |-> TRUE]

\* ------------------------------------------------------------------------
\* State
\* ------------------------------------------------------------------------
VARIABLES
  ticker,      \* argument of _run
  provided,    \* closes of the series the provider holds for the ticker
  backend,     \* _ta_backend, set when the module is loaded
  ties,        \* order argsort gives to equal priorities in this build
  fault,       \* the fault the environment injects, if any
  pc,          \* position in _run
  history,     \* closes of the fetched frame
  current,     \* the latest-value snapshot (lines 73-78)
  peaks,       \* line 82
  troughs,     \* line 83
  support_levels,
  resistance_levels,
  raised,      \* the exception in flight inside the try block
  result,      \* the returned dict
  escaped,     \* an exception left _run
  steps        \* the steps executed so far, in order

vars == << ticker, provided, backend, ties, fault, pc, history, current,
           peaks, troughs, support_levels, resistance_levels, raised, result, escaped, steps >>

inputs == << ticker, provided, backend, ties, fault >>

InitLocals ==
  /\ pc = "start"
  /\ history = << >>
  /\ current = << >>
  /\ peaks = << >>
  /\ troughs = << >>
  /\ support_levels = << >>
  /\ resistance_levels = << >>
  /\ raised = NoFault
  /\ result = Pending
  /\ escaped = FALSE
  /\ steps = << >>

\* Series of full length with up to MaxSpikes spikes, a working backend and
\* no fault.
InitAnalysis ==
  /\ ticker = "AAPL"
  /\ backend = "ta"
  /\ fault = NoFault
  /\ ties \in {"later", "earlier"}
  /\ \E shape \in Shapes : \E S \in SpikeSets : \E f \in [S -> SpikeVals] :
       provided = Series(MaxLen, shape, f)

\* Series of every length around the 50-bar boundary, every backend state
\* and every fault.
InitEnvironment ==
  /\ ticker = "AAPL"
  /\ backend \in Backends
  /\ fault \in Faults
  /\ ties = "later"
  /\ \E n \in ShortLens : \E shape \in Shapes : \E f \in {NoSpikes, Fixture} :
       provided = Series(n, shape, f)

Init == InitLocals /\ (InitAnalysis \/ InitEnvironment)

Raise(stage) ==
  /\ fault.stage = stage
  /\ raised' = fault
  /\ pc' = "raised"

\* Lines 44-45: stock.history(period=period).
Fetch ==
  /\ pc = "start"
  /\ \/ /\ Raise("fetch")
        /\ UNCHANGED << history, steps >>
     \/ /\ fault.stage # "fetch"
        /\ history' = provided
        /\ steps' = Append(steps, "fetch")
        /\ pc' = "fetched"
        /\ UNCHANGED raised
  /\ UNCHANGED << inputs, current, peaks, troughs, support_levels, resistance_levels,
                  result, escaped >>

\* Variant: a series of exactly 50 bars is rejected too.
TooFewInclusive(h) == Len(h) = 0 \/ Len(h) <= MinBars

\* history.empty or len(history) < 50.
TooFew(h) == Len(h) = 0 \/ Len(h) < MinBars

\* Variant: the backend is validated before the bar count.
ValidateSizeAfterBackend ==
  /\ pc = "fetched"
  /\ IF backend = "none"
     THEN /\ result' = [error |-> ErrBackend]
          /\ steps' = Append(steps, "check_backend")
          /\ pc' = "done"
     ELSE /\ steps' = Append(steps, "validate_size")
          /\ IF TooFew(history)
             THEN /\ result' = [error |-> ErrInsufficient]
                  /\ pc' = "done"
             ELSE /\ pc' = "sized"
                  /\ UNCHANGED result
  /\ UNCHANGED << inputs, history, current, peaks, troughs, support_levels,
                  resistance_levels, raised, escaped >>

\* Lines 48-49.
ValidateSize ==
  /\ pc = "fetched"
  /\ steps' = Append(steps, "validate_size")
  /\ IF TooFew(history)
     THEN /\ result' = [error |-> ErrInsufficient]
          /\ pc' = "done"
     ELSE /\ pc' = "sized"
          /\ UNCHANGED result
  /\ UNCHANGED << inputs, history, current, peaks, troughs, support_levels,
                  resistance_levels, raised, escaped >>

\* Lines 52-70: the indicator columns, or the error of the missing backend.
ComputeIndicators ==
  /\ pc = "sized"
  /\ IF backend = "none"
     THEN /\ result' = [error |-> ErrBackend]
          /\ steps' = Append(steps, "check_backend")
          /\ pc' = "done"
          /\ UNCHANGED raised
     ELSE \/ /\ Raise("indicators")
             /\ steps' = Append(steps, "check_backend")
             /\ UNCHANGED result
          \/ /\ fault.stage # "indicators"
             /\ steps' = steps \o << "check_backend", "indicators" >>
             /\ pc' = "indicators"
             /\ UNCHANGED << result, raised >>
  /\ UNCHANGED << inputs, history, current, peaks, troughs, support_levels,
                  resistance_levels, escaped >>

\* Lines 73-85: the snapshot, then the extrema of the closes that are not
\* missing and the levels taken from them.
SnapshotAndLevels ==
  /\ pc = "indicators"
  /\ \/ /\ Raise("snapshot")
        /\ UNCHANGED << current, peaks, troughs, support_levels, resistance_levels, steps >>
     \/ /\ fault.stage # "snapshot"
        /\ current' = [current_price |-> At(history, Len(history) - 1),
                       sma_50 |-> SmaCurrent(history, SmaShort),
                       sma_200 |-> SmaCurrent(history, SmaLong),
                       rsi |-> "number",
                       macd |-> MacdCurrent(backend),
                       atr |-> "number"]
        /\ LET close_prices == DropNa(history)
           IN /\ peaks' = FindPeaks(close_prices, Distance, ties)
              /\ troughs' = FindPeaks(Negate(close_prices), Distance, ties)
              /\ support_levels' = Levels(close_prices, troughs')
              /\ resistance_levels' = Levels(close_prices, peaks')
        /\ steps' = steps \o << "snapshot", "find_peaks", "find_troughs",
                                "levels" >>
        /\ pc' = "levels"
        /\ UNCHANGED raised
  /\ UNCHANGED << inputs, history, result, escaped >>

\* Lines 88-101: the patterns and the report.
PatternsAndReturn ==
  /\ pc = "levels"
  /\ \/ /\ Raise("patterns")
        /\ UNCHANGED << result, steps >>
     \/ /\ fault.stage # "patterns"
        /\ result' = [ticker |-> ticker,
                      current_price |-> current.current_price,
                      sma_50 |-> current.sma_50,
                      sma_200 |-> current.sma_200,
                      rsi |-> current.rsi,
                      macd |-> current.macd,
                      atr |-> current.atr,
                      support_levels |-> support_levels,
                      resistance_levels |-> resistance_levels,
                      identified_patterns |->
                        identify_chart_patterns(history, ties)]
        /\ steps' = steps \o << "patterns", "return" >>
        /\ pc' = "done"
        /\ UNCHANGED raised
  /\ UNCHANGED << inputs, history, current, peaks, troughs, support_levels,
                  resistance_levels, escaped >>

\* Lines 102-103.
ExceptIndexError ==
  /\ pc = "raised"
  /\ raised.kind = "IndexError"
  /\ result' = [error |-> ErrIndex]
  /\ pc' = "done"
  /\ UNCHANGED << inputs, history, current, peaks, troughs, support_levels,
                  resistance_levels, raised, escaped, steps >>

\* Lines 104-105: an exception the clause does not match leaves _run.
ExceptException ==
  /\ pc = "raised"
  /\ raised.kind # "IndexError"
  /\ IF IsException(raised.kind)
     THEN /\ result' = [error |-> ErrUnexpected(raised.msg)]
          /\ pc' = "done"
          /\ UNCHANGED escaped
     ELSE /\ escaped' = TRUE
          /\ pc' = "escaped"
          /\ UNCHANGED result
  /\ UNCHANGED << inputs, history, current, peaks, troughs, support_levels,
                  resistance_levels, raised, steps >>

Next ==
  \/ Fetch
  \/ ValidateSize
  \/ ComputeIndicators
  \/ SnapshotAndLevels
  \/ PatternsAndReturn
  \/ ExceptIndexError
  \/ ExceptException

Spec == Init /\ [][Next]_vars

\* ------------------------------------------------------------------------
\* Properties
\* ------------------------------------------------------------------------
ReportFields ==
  {"ticker", "current_price", "sma_50", "sma_200", "rsi", "macd", "atr",
   "support_levels", "resistance_levels", "identified_patterns"}

IsReport(r) == DOMAIN r = ReportFields

IsError(r) == DOMAIN r = {"error"}

Returned == pc = "done"

Fetched == Len(steps) >= 1 /\ steps[1] = "fetch"

Executed(step) == \E k \in 1..Len(steps) : steps[k] = step

ComputationSteps ==
  {"indicators", "snapshot", "find_peaks", "find_troughs", "levels", "patterns"}

\* C1: every invocation of _run ends with a returned dict that is either a
\* report of exactly the ten fields or an error holding only the error
\* message; no exception leaves _run, whatever the series, the backend or
\* the fault.
C1_StructuredResult ==
  /\ ~escaped
  /\ pc # "escaped"
  /\ Returned => (IsReport(result) \/ IsError(result))
  /\ ~Returned => result = Pending

C1_Witness ==
  /\ Returned
  /\ fault.stage = "snapshot"
  /\ raised = fault
  /\ IsError(result)

\* C2: once the series is fetched, the result is the InsufficientData error
\* exactly when the series has fewer than 50 bars; 49 bars and the empty
\* series give it, 50 bars or more never do.
C2_SufficiencyBoundary ==
  (Returned /\ Fetched) =>
    ((result = [error |-> ErrInsufficient]) <=> (Len(provided) < 50))

C2_Witness ==
  /\ Returned
  /\ Len(provided) = 49
  /\ result = [error |-> ErrInsufficient]

\* C3: the bar count is validated before the backend and both before any
\* indicator, extrema, level or pattern step: fewer than 50 bars give
\* InsufficientData with or without a backend, at least 50 bars and no
\* backend give BackendUnavailable, and in neither case has any computation
\* step run.
C3_ValidationOrder ==
  /\ \A k \in 1..Len(steps) :
       /\ steps[k] = "check_backend" =>
            \E j \in 1..(k - 1) : steps[j] = "validate_size"
       /\ steps[k] \in ComputationSteps =>
            \E j \in 1..(k - 1) : steps[j] = "check_backend"
  /\ (Returned /\ Fetched /\ Len(provided) < 50) =>
       /\ result = [error |-> ErrInsufficient]
       /\ ~Executed("check_backend")
       /\ \A st \in ComputationSteps : ~Executed(st)
       /\ peaks = << >> /\ troughs = << >> /\ current = << >>
  /\ (Returned /\ Fetched /\ Len(provided) >= 50 /\ backend = "none") =>
       /\ result = [error |-> ErrBackend]
       /\ \A st \in ComputationSteps : ~Executed(st)
       /\ peaks = << >> /\ troughs = << >> /\ current = << >>

C3_Witness ==
  /\ Returned
  /\ Len(provided) < 50
  /\ backend = "none"
  /\ result = [error |-> ErrInsufficient]

\* C4 as stated: every fault raised inside the analysis, an index fault
\* included, is returned as the UnexpectedError result carrying the message
\* of the fault.
C4_Original ==
  (Returned /\ raised # NoFault) =>
    result = [error |-> << "An unexpected error occurred: ", raised.msg >>]

\* C4 amended: a fault that is not an index fault is returned as the
\* UnexpectedError result carrying the message of the fault; an index fault
\* is returned as the fixed index-error message, without the fault's message.
C4_FaultMapping ==
  (Returned /\ raised # NoFault) =>
    IF raised.kind = "IndexError"
    THEN result =
           [error |-> << "Index error: Ensure sufficient data for technical analysis." >>]
    ELSE result = [error |-> << "An unexpected error occurred: ", raised.msg >>]

C4_Witness ==
  /\ Returned
  /\ raised.kind = "ValueError"
  /\ raised.stage = "patterns"
  /\ result = [error |-> << "An unexpected error occurred: ", raised.msg >>]

LastTwo(q) == << q[Len(q) - 1], q[Len(q)] >>

LastUpTo3(q) ==
  LET m == IF Len(q) < 3 THEN Len(q) ELSE 3
  IN [k \in 1..m |-> q[Len(q) - m + k]]

Range(q) == {q[k] : k \in 1..Len(q)}

Separated(idx) ==
  \A a, b \in 1..Len(idx) : a # b => Abs(idx[a] - idx[b]) >= 20

Succeeded == Returned /\ IsReport(result)

\* C5: any two distinct peaks the detector returns with minimum distance 20
\* are at least 20 bars apart, and so are any two troughs, both for the
\* extrema of _run and for those the pattern rules compute.
C5_ExtremaSeparation ==
  /\ Separated(peaks)
  /\ Separated(troughs)
  /\ Succeeded =>
       /\ Separated(FindPeaks(history, 20, ties))
       /\ Separated(FindPeaks(Negate(history), 20, ties))

\* Two candidates exactly 20 bars apart both survive, in a series where the
\* filter removed some other candidate.
C5_Witness ==
  /\ pc = "levels"
  /\ \E a \in 1..(Len(peaks) - 1) : peaks[a + 1] - peaks[a] = 20
  /\ Len(LocalMaxima(DropNa(history))) > Len(peaks)

\* The filter as the specification words it: the candidates are taken left
\* to right; a candidate closer than minDistance to the last survivor
\* replaces it when strictly more extreme and is dropped otherwise (on a
\* tie the earlier index survives).
RECURSIVE LeftToRightFrom(_, _, _, _)
LeftToRightFrom(cand, x, k, kept) ==
  IF k > Len(cand) THEN kept
  ELSE LET c == cand[k]
           n == Len(kept)
       IN IF n = 0 \/ c - kept[n] >= 20
          THEN LeftToRightFrom(cand, x, k + 1, Append(kept, c))
          ELSE IF At(x, c) > At(x, kept[n])
               THEN LeftToRightFrom(cand, x, k + 1,
                                    Append(SubSeq(kept, 1, n - 1), c))
               ELSE LeftToRightFrom(cand, x, k + 1, kept)

LeftToRight(x) == LeftToRightFrom(LocalMaxima(x), x, 1, << >>)

\* C6 as stated: the left-to-right filter with the earlier index surviving
\* a tie gives the survivors of find_peaks(distance=20), for peaks and for
\* troughs.
C6_Original ==
  pc = "levels" =>
    /\ peaks = LeftToRight(DropNa(history))
    /\ troughs = LeftToRight(Negate(DropNa(history)))

\* The survivors S of the candidates of x when candidates are handled in
\* decreasing order of value: no two survivors are closer than 20 bars and
\* every dropped candidate is closer than 20 bars to a survivor that was
\* handled before it, one of greater value or, on a tie, the one the sort
\* order of the build puts first.
ByDecreasingValue(x, S, order) ==
  LET cand == Range(LocalMaxima(x))
  IN /\ S \subseteq cand
     /\ \A a, b \in S : a # b => Abs(a - b) >= 20
     /\ \A c \in cand \ S :
          \E a \in S :
            /\ Abs(a - c) < 20
            /\ \/ At(x, a) > At(x, c)
               \/ At(x, a) = At(x, c) /\ order = "later" /\ a > c
               \/ At(x, a) = At(x, c) /\ order = "earlier" /\ a < c

\* C6 amended: find_peaks(distance=20) handles the candidates in decreasing
\* order of value, not left to right: a candidate is dropped exactly when a
\* survivor of greater value lies closer than 20 bars; between candidates of
\* equal value closer than 20 bars the survivor is the one the library's
\* sort order handles first, which is the later index under a stable sort
\* and not in general the earlier one.
C6_FilterRule ==
  pc = "levels" =>
    /\ ByDecreasingValue(DropNa(history), Range(peaks), ties)
    /\ ByDecreasingValue(Negate(DropNa(history)), Range(troughs), ties)

\* Two tied candidates closer than 20 bars, of which the later survives.
C6_Witness ==
  /\ pc = "levels"
  /\ ties = "later"
  /\ LET x == DropNa(history)
         cand == Range(LocalMaxima(x))
     IN \E a \in cand : \E b \in Range(peaks) :
          a < b /\ b - a < 20 /\ At(x, a) = At(x, b)

\* C7: the report carries Head and Shoulders exactly when the detector
\* yields at least 3 peaks and, of the last three, the middle one's price is
\* strictly greater than the price of each of the other two.
C7_HeadAndShoulders ==
  Succeeded =>
    LET pk == FindPeaks(history, 20, ties)
        n == Len(pk)
    IN ("Head and Shoulders" \in Range(result.identified_patterns))
       <=> /\ n >= 3
           /\ At(history, pk[n - 1]) > At(history, pk[n - 2])
           /\ At(history, pk[n - 1]) > At(history, pk[n])

\* Peaks at 10, 30, 50 with prices 100, 120, 100 are classified.
C7_Witness ==
  /\ Succeeded
  /\ peaks = << 10, 30, 50 >>
  /\ FindPeaks(history, 20, ties) = << 10, 30, 50 >>
  /\ Take(history, peaks) = << 100, 120, 100 >>
  /\ "Head and Shoulders" \in Range(result.identified_patterns)

\* C8: the report carries Double Top exactly when the detector yields at
\* least 2 peaks and the last two, of prices p_prev and p_last, satisfy
\* |p_last - p_prev| / p_prev < 3%.
C8_DoubleTop ==
  Succeeded =>
    LET pk == FindPeaks(history, 20, ties)
        n == Len(pk)
    IN ("Double Top" \in Range(result.identified_patterns))
       <=> /\ n >= 2
           /\ 100 * Abs(At(history, pk[n]) - At(history, pk[n - 1]))
                < 3 * At(history, pk[n - 1])

\* Last peaks 100 and 102 match.
C8_Witness ==
  /\ Succeeded
  /\ Len(peaks) >= 2
  /\ LastTwo(Take(DropNa(history), peaks)) = << 100, 102 >>
  /\ DropNa(history) = history
  /\ "Double Top" \in Range(result.identified_patterns)

\* C9: the report carries Double Bottom exactly when the detector yields at
\* least 2 troughs and the last two, of close prices t_prev and t_last,
\* satisfy |t_last - t_prev| / t_prev < 3%; every trough is a bar, other
\* than the first and the last, whose close no neighbour is below.
C9_DoubleBottom ==
  Succeeded =>
    LET tr == FindPeaks(Negate(history), 20, ties)
        n == Len(tr)
    IN /\ ("Double Bottom" \in Range(result.identified_patterns))
          <=> /\ n >= 2
              /\ 100 * Abs(At(history, tr[n]) - At(history, tr[n - 1]))
                   < 3 * At(history, tr[n - 1])
       /\ \A k \in 1..n :
            /\ 0 < tr[k] /\ tr[k] < Len(history) - 1
            /\ At(history, tr[k]) # NaN
            /\ At(history, tr[k] - 1) # NaN /\ At(history, tr[k] + 1) # NaN
            /\ At(history, tr[k] - 1) >= At(history, tr[k])
            /\ At(history, tr[k] + 1) >= At(history, tr[k])

\* Two last troughs of different prices within 3% of the earlier one.
C9_Witness ==
  /\ Succeeded
  /\ Len(troughs) >= 2
  /\ DropNa(history) = history
  /\ LET t == Take(history, troughs)
     IN t[Len(t)] # t[Len(t) - 1]
  /\ "Double Bottom" \in Range(result.identified_patterns)

\* C10: support_levels is the prices of the last 3 troughs in index order,
\* of all troughs when there are fewer than 3, and resistance_levels the
\* same over the peaks; each list has at most 3 entries.
C10_Levels ==
  Succeeded =>
    LET x == DropNa(history)
    IN /\ peaks = FindPeaks(x, 20, ties)
       /\ troughs = FindPeaks(Negate(x), 20, ties)
       /\ result.support_levels = LastUpTo3(Take(x, troughs))
       /\ result.resistance_levels = LastUpTo3(Take(x, peaks))
       /\ Len(result.support_levels) <= 3
       /\ Len(result.resistance_levels) <= 3

\* Five troughs of which the last three are reported.
C10_Witness ==
  /\ Succeeded
  /\ Len(troughs) = 5
  /\ Len(result.support_levels) = 3
  /\ At(DropNa(history), troughs[1]) # At(DropNa(history), troughs[3])

\* The rule of each label, over the extrema of the closes.
RuleMatches(label, close, order) ==
  LET pk == FindPeaks(close, 20, order)
      tr == FindPeaks(Negate(close), 20, order)
      np == Len(pk)
      nt == Len(tr)
  IN CASE label = "Head and Shoulders" ->
            /\ np >= 3
            /\ At(close, pk[np - 1]) > At(close, pk[np - 2])
            /\ At(close, pk[np - 1]) > At(close, pk[np])
       [] label = "Double Top" ->
            /\ np >= 2
            /\ 100 * Abs(At(close, pk[np]) - At(close, pk[np - 1]))
                 < 3 * At(close, pk[np - 1])
       [] label = "Double Bottom" ->
            /\ nt >= 2
            /\ 100 * Abs(At(close, tr[nt]) - At(close, tr[nt - 1]))
                 < 3 * At(close, tr[nt - 1])

Labels == << "Head and Shoulders", "Double Top", "Double Bottom" >>

\* C13: identified_patterns holds each label exactly when the label's own
\* rule matches, whatever the other two rules give, so labels are reported
\* together; a fetched series of at least 50 bars with a backend and no
\* fault always gives a report, and one whose closes have no local extremum
\* gives a report with no pattern, no support and no resistance.
C13_RuleIndependence ==
  /\ Succeeded =>
       /\ result.identified_patterns =
            SelectSeq(Labels, LAMBDA l : RuleMatches(l, history, ties))
       /\ (/\ LocalMaxima(DropNa(history)) = << >>
           /\ LocalMaxima(Negate(DropNa(history))) = << >>)
            => /\ result.identified_patterns = << >>
               /\ result.support_levels = << >>
               /\ result.resistance_levels = << >>
  /\ (Returned /\ fault = NoFault /\ backend # "none" /\ Len(provided) >= 50)
       => IsReport(result)

\* Head and Shoulders reported together with Double Top.
C13_Witness ==
  /\ Succeeded
  /\ "Head and Shoulders" \in Range(result.identified_patterns)
  /\ "Double Top" \in Range(result.identified_patterns)

\* The flat runs l..r of x, away from the first and the last bar, that are
\* strictly higher than the bar before and the bar after them: l follows a
\* lower bar, r is the first bar from l on that a lower bar follows, and
\* the bars between are equal.
RaisedRuns(x) ==
  LET falls == {e \in 1..(Len(x) - 2) : Lt(At(x, e + 1), At(x, e))}
      rises == {b \in 1..(Len(x) - 2) : Lt(At(x, b - 1), At(x, b))}
  IN {run \in UNION {{<< l, r >> : r \in {e \in falls :
                                             /\ l <= e
                                             /\ Eq(At(x, e), At(x, l))}} :
                     l \in rises} :
        \A d \in run[1]..run[2] : Eq(At(x, d), At(x, run[1]))}

FirstOfRuns(x) == {run[1] : run \in RaisedRuns(x)}

MidOfRuns(x) == {(run[1] + run[2]) \div 2 : run \in RaisedRuns(x)}

\* C14 as stated: the candidate peaks are the bars strictly higher than both
\* neighbours, a raised flat run giving its first bar; candidate troughs
\* are those of the negated closes.
C14_Original ==
  pc = "levels" =>
    /\ Range(LocalMaxima(DropNa(history))) = FirstOfRuns(DropNa(history))
    /\ Range(LocalMaxima(Negate(DropNa(history))))
         = FirstOfRuns(Negate(DropNa(history)))

\* C14 amended: the candidate peaks are the bars strictly higher than both
\* neighbours, a raised flat run giving its middle bar (the lower middle
\* for a run of even length) and not its first; the first and the last
\* bar are never candidates; candidate troughs are the candidate peaks of
\* the negated closes, and every extremum kept is a candidate.  This holds
\* of the closes without the missing values, used for the levels, and of
\* the closes as fetched, used by the pattern rules.  (The candidates do
\* not depend on the order of ties, so one order is examined.)
C14_Candidates ==
  pc = "levels" =>
    /\ ties = "later" => \A x \in {DropNa(history), history, Negate(DropNa(history)),
                  Negate(history)} :
         LET cand == Range(LocalMaxima(x))
         IN /\ cand = MidOfRuns(x)
            /\ \A c \in cand : 0 < c /\ c < Len(x) - 1
    /\ Range(peaks) \subseteq Range(LocalMaxima(DropNa(history)))
    /\ Range(troughs) \subseteq Range(LocalMaxima(Negate(DropNa(history))))

\* A trough kept in the middle of a flat run of three bars or more.
C14_Witness ==
  /\ pc = "levels"
  /\ \E k \in 1..Len(troughs) :
       LET x == DropNa(history)
       IN /\ At(x, troughs[k] - 1) = At(x, troughs[k])
          /\ At(x, troughs[k] + 1) = At(x, troughs[k])

\* The bar of the fetched series h that holds element j of the closes
\* without the missing values (both 0-based).
BarOf(h, j) ==
  CHOOSE i \in j..(Len(h) - 1) :
    /\ At(h, i) # NaN
    /\ i - Cardinality({d \in 0..(i - 1) : At(h, d) = NaN}) = j

BarsOf(h, idx) == [k \in 1..Len(idx) |-> BarOf(h, idx[k])]

\* C15: in every report the peaks and troughs the levels are taken from are
\* the peaks and troughs the three pattern rules inspect, the same bars with
\* the same prices, also when closes are missing.
C15_SingleExtremaView ==
  Succeeded =>
    LET x == DropNa(history)
        rulePeaks == FindPeaks(history, 20, ties)
        ruleTroughs == FindPeaks(Negate(history), 20, ties)
    IN /\ BarsOf(history, peaks) = rulePeaks
       /\ BarsOf(history, troughs) = ruleTroughs
       /\ Take(x, peaks) = Take(history, rulePeaks)
       /\ Take(x, troughs) = Take(history, ruleTroughs)

\* The last element of the n-bar mean of x, "undefined" while the window is
\* not full or when a close in it is missing.
LastMean(x, n) ==
  IF Len(x) < n THEN "undefined"
  ELSE IF \E d \in (Len(x) - n)..(Len(x) - 1) : At(x, d) = NaN
       THEN "undefined"
       ELSE << RangeSum(x, Len(x) - n, Len(x) - 1), n >>

OrNull(v) == IF v = "undefined" THEN "None" ELSE v

\* C12: in every report each indicator field is the last element of its
\* sequence when that element is defined and the null marker when it is
\* not; sma_200 is null below 200 bars and defined from 200 bars on.
C12_LatestSnapshot ==
  Succeeded =>
    /\ result.sma_50 = OrNull(LastMean(history, 50))
    /\ result.sma_200 = OrNull(LastMean(history, 200))
    /\ result.rsi # "None" /\ result.macd # "None" /\ result.atr # "None"
    /\ Len(history) < 200 => result.sma_200 = "None"
    /\ (Len(history) >= 200 /\ DropNa(history) = history)
         => result.sma_200 # "None"

OtherBackend(be) == IF be = "pandas_ta" THEN "ta" ELSE "pandas_ta"

\* C11: for the same series the report made with the pandas_ta backend and
\* the report made with the ta backend agree on every field: the macd this
\* report holds is the macd the other backend gives for the series, and the
\* moving averages, levels and patterns do not depend on the backend.
C11_BackendAgreement ==
  Succeeded =>
    /\ result.macd = MacdCurrent(OtherBackend(backend))
    /\ result.sma_50 = SmaCurrent(history, 50)
    /\ result.sma_200 = SmaCurrent(history, 200)
    /\ result.support_levels = support_levels
    /\ result.resistance_levels = resistance_levels
    /\ result.identified_patterns = identify_chart_patterns(history, ties)

====
